---- MODULE Spec2Model ----
(***************************************************************************)
(* eppcli: a model of src/main.rs.                                         *)
(*                                                                         *)
(* The state is the part of the filesystem the program reads and writes    *)
(* (the base directory /sys/devices/system/cpu/, its entries, and the      *)
(* control file cpufreq/energy_performance_preference below each entry)    *)
(* together with what one invocation of the program leaves behind: the     *)
(* list AmdEppMgr::new discovered, the profile run_app selected, the       *)
(* result run_app returned and the lines it printed.  One action is one    *)
(* invocation of run_app with one command line.                            *)
(*                                                                         *)
(* Strings are sequences of one-character strings; "LF" is the newline.    *)
(* A control-file path is identified by the name of its cpu directory: the *)
(* components before and after that name are the same for every path.      *)
(***************************************************************************)
EXTENDS Integers, Sequences, FiniteSets, TLC

\* ------------------------------------------------------------------ bounds
\* Entries of the base directory (main specification).
MaxEntries == 3
\* Control files of the main specification that fail on open or on write.
MaxFaults == 1
\* Invocations of the program in one behaviour (main specification).
MaxRuns == 1
\* Entries of the base directory (discovery specification).
MaxDiscEntries == 2
\* Invocations of the program in one behaviour (discovery specification).
MaxDiscRuns == 1
\* Control files of the round-trip specification.
MaxCpus == 2
\* Invocations of the program in one behaviour (round-trip specification).
MaxSeq == 3
\* Largest value given to -p (a u8 in the program).
MaxLevel == 4

\* ------------------------------------------------------------- characters
Lower == <<"a","b","c","d","e","f","g","h","i","j","k","l","m",
           "n","o","p","q","r","s","t","u","v","w","x","y","z">>
Upper == <<"A","B","C","D","E","F","G","H","I","J","K","L","M",
           "N","O","P","Q","R","S","T","U","V","W","X","Y","Z">>
Digit == <<"0","1","2","3","4","5","6","7","8","9">>

IndexOf(seq, ch) == CHOOSE i \in 1..Len(seq) : seq[i] = ch
InSeq(seq, ch) == \E i \in 1..Len(seq) : seq[i] = ch

\* The byte value of a character (ASCII).
CodeOf(ch) ==
  IF InSeq(Lower, ch) THEN 96 + IndexOf(Lower, ch)
  ELSE IF InSeq(Upper, ch) THEN 64 + IndexOf(Upper, ch)
  ELSE IF InSeq(Digit, ch) THEN 47 + IndexOf(Digit, ch)
  ELSE CASE ch = "LF" -> 10
         [] ch = " "  -> 32
         [] ch = "+"  -> 43
         [] ch = "-"  -> 45
         [] ch = "/"  -> 47
         [] ch = ":"  -> 58
         [] ch = "_"  -> 95

Chars == {Lower[i] : i \in 1..Len(Lower)} \cup {Upper[i] : i \in 1..Len(Upper)}
           \cup {Digit[i] : i \in 1..Len(Digit)} \cup {"LF", " ", "+", "-", "/", ":", "_"}
CodeTable == [ch \in Chars |-> CodeOf(ch)]
Code(ch) == CodeTable[ch]

IsDigit(ch) == InSeq(Digit, ch)
DigitVal(ch) == IndexOf(Digit, ch) - 1
IsWhitespace(ch) == ch \in {"LF", " "}

\* Byte-wise lexicographic order of two strings (Ord of str / OsStr).
StrLess(a, b) ==
  \E i \in 1..(Len(a) + 1) :
    /\ \A j \in 1..(i - 1) : j <= Len(b) /\ a[j] = b[j]
    /\ \/ i = Len(a) + 1 /\ Len(b) >= i
       \/ i <= Len(a) /\ i <= Len(b) /\ Code(a[i]) < Code(b[i])

HasPrefix(s, p) == Len(s) >= Len(p) /\ SubSeq(s, 1, Len(p)) = p

Max(a, b) == IF a >= b THEN a ELSE b

\* ----------------------------------------------------------------- EppValue
Performance == "Performance"
BalancePerformance == "BalancePerformance"
BalancePower == "BalancePower"
Power == "Power"
None == "None"

\* EppValue::as_str
as_str(v) ==
  CASE v = Performance -> <<"p","e","r","f","o","r","m","a","n","c","e">>
    [] v = BalancePerformance ->
         <<"b","a","l","a","n","c","e","_","p","e","r","f","o","r","m","a","n","c","e">>
    [] v = BalancePower -> <<"b","a","l","a","n","c","e","_","p","o","w","e","r">>
    [] v = Power -> <<"p","o","w","e","r">>

\* A mutant of from_level: level 4 and above clamped to Power, as the
\* comment on the match arm for 3 suggests.
from_level_clamped(level) ==
  CASE level = 0 -> Performance
    [] level = 1 -> BalancePerformance
    [] level = 2 -> BalancePower
    [] OTHER -> Power

\* EppValue::from_level
from_level(level) ==
  CASE level = 0 -> Performance
    [] level = 1 -> BalancePerformance
    [] level = 2 -> BalancePower
    [] level = 3 -> Power
    [] OTHER -> None

\* ------------------------------------------------------------------ errors
NoPath == <<>>
OkResult == [ok |-> TRUE, src |-> "none", kind |-> "none", msg |-> "none",
             path |-> NoPath, cause |-> "none"]
\* An io::Error the operating system produced, propagated by `?`: its
\* message is the cause alone.
OsError(kind) == [ok |-> FALSE, src |-> "io", kind |-> kind, msg |-> "os",
                  path |-> NoPath, cause |-> kind]
\* io::Error::new(kind, text)
CustomIoError(kind, msg) == [ok |-> FALSE, src |-> "io", kind |-> kind, msg |-> msg,
                             path |-> NoPath, cause |-> "none"]
\* A String turned into Box<dyn Error>: it has no io::ErrorKind; path and
\* cause are what format! put into the text.
MsgError(msg, path, cause) == [ok |-> FALSE, src |-> "string", kind |-> "none",
                               msg |-> msg, path |-> path, cause |-> cause]

\* ------------------------------------------------------------- parse::<u32>
U32MaxDiv10 == 429496729
U32MaxMod10 == 5
ParseErr == -1

RECURSIVE ParseDigits(_, _, _)
\* The digit loop of u32::from_str: checked_mul(10) then checked_add(d).
ParseDigits(s, i, acc) ==
  IF i > Len(s) THEN acc
  ELSE IF ~IsDigit(s[i]) THEN ParseErr
  ELSE IF acc > U32MaxDiv10 \/ (acc = U32MaxDiv10 /\ DigitVal(s[i]) > U32MaxMod10)
       THEN ParseErr
  ELSE ParseDigits(s, i + 1, acc * 10 + DigitVal(s[i]))

\* str::parse::<u32>: empty is an error, one leading "+" is accepted, a lone
\* sign is an error, every other character must be a decimal digit.
ParseU32(s) ==
  IF Len(s) = 0 THEN ParseErr
  ELSE IF s[1] = "+" THEN (IF Len(s) = 1 THEN ParseErr ELSE ParseDigits(s, 2, 0))
  ELSE ParseDigits(s, 1, 0)

Some(v) == [some |-> TRUE, val |-> v]
NoneStr == [some |-> FALSE, val |-> <<>>]

CpuPrefix == <<"c","p","u">>
\* str::strip_prefix("cpu"): the rest of the name, or None.
strip_prefix_cpu(name) ==
  IF HasPrefix(name, CpuPrefix) THEN Some(SubSeq(name, 4, Len(name))) ELSE NoneStr

\* -------------------------------------------------------------- filesystem
VARIABLES
  baseDir,        \* "ok", "missing" or "unreadable": what read_dir finds
  entries,        \* name of each entry of the base directory |-> its kind
  perm,           \* entry |-> how its control file answers open and write
  files,          \* entry |-> the content of its control file
  budget,         \* invocations left in this behaviour
  cli,            \* the command line of the last invocation
  discovered,     \* whether AmdEppMgr::new succeeded in the last invocation
  epp_paths,      \* AmdEppMgr.epp_paths of the last invocation
  profile_to_set, \* run_app's profile_to_set in the last invocation
  cpu_data,       \* read_profile's sorted cpu_data in the last invocation
  stdout,         \* the lines the last invocation printed
  result,         \* what run_app returned
  preFiles,       \* files as they were when the last invocation started
  initFiles,      \* files as they were in the initial state
  fail,           \* where apply_profile stopped: the location's position and the call that failed
  applied,        \* tokens applied so far, while every invocation was a successful apply
  phase           \* "applying", "read" (a successful show right after), "other"

vars == <<baseDir, entries, perm, files, budget, cli, discovered, epp_paths,
          profile_to_set, cpu_data, stdout, result, preFiles, initFiles,
          fail, applied, phase>>

\* Kinds of an entry of the base directory: a plain file, a directory without
\* the control file, a directory in which cpufreq/energy_performance_preference
\* is a file, and one in which it is itself a directory.
EntryKinds == {"file", "dir", "dir_epp_file", "dir_epp_dir"}
\* Path::is_dir
is_dir(kind) == kind # "file"
\* Path::exists on the joined control-file path: true of anything there.
exists(kind) == kind \in {"dir_epp_file", "dir_epp_dir"}

\* Ord of PathBuf compares component by component; two control-file paths
\* differ in the cpu directory's name alone.
PathLess(a, b) == StrLess(a, b)

RECURSIVE SortPaths(_)
\* Vec::sort on the collected paths (the paths are distinct, so the order
\* read_dir yielded them in does not show).
SortPaths(S) ==
  IF S = {} THEN <<>>
  ELSE LET m == CHOOSE x \in S : \A y \in S \ {x} : PathLess(x, y)
       IN <<m>> \o SortPaths(S \ {m})

\* The filter of AmdEppMgr::new on one entry of the base directory.
Qualifies(name, kind) ==
  /\ is_dir(kind)
  /\ strip_prefix_cpu(name).some
  /\ ParseU32(strip_prefix_cpu(name).val) # ParseErr
  /\ exists(kind)

\* AmdEppMgr::new
New(bd, ents) ==
  IF bd = "missing" THEN [res |-> OsError("NotFound"), epp_paths |-> <<>>]
  ELSE IF bd = "unreadable" THEN [res |-> OsError("PermissionDenied"), epp_paths |-> <<>>]
  ELSE LET found == SortPaths({n \in DOMAIN ents : Qualifies(n, ents[n])})
       IN IF found = <<>>
          THEN [res |-> CustomIoError("NotFound", "NoEppFiles"), epp_paths |-> <<>>]
          ELSE [res |-> OkResult, epp_paths |-> found]

\* ----------------------------------------------------------- apply_profile
LF == <<"LF">>

\* How a control file answers: "rw" opens and takes the write; "eacces" refuses
\* the open with PermissionDenied; "erofs" refuses it with another error;
\* "ebusy" opens and refuses the write (as the driver does for a value it
\* does not take in its current mode).
Perms == {"rw", "eacces", "erofs", "ebusy"}

\* OpenOptions::new().write(true).open(path): "ok" or the error's kind.
open_write(p) ==
  IF entries[p] = "dir_epp_dir" THEN "IsADirectory"
  ELSE IF perm[p] = "eacces" THEN "PermissionDenied"
  ELSE IF perm[p] = "erofs" THEN "ReadOnlyFilesystem"
  ELSE "ok"

\* What a write of `bytes` at offset 0 leaves in a file opened write-only,
\* neither truncated nor appended to: the bytes, then what the file held
\* beyond them.
WriteAt0(old, bytes) ==
  IF Len(old) > Len(bytes)
  THEN bytes \o SubSeq(old, Len(bytes) + 1, Len(old))
  ELSE bytes

\* file.write_all(bytes): "ok" or the error's kind; a refused write
\* transfers nothing.
write_all(p) == IF perm[p] = "ebusy" THEN "ResourceBusy" ELSE "ok"

\* file.flush(): flush of a std::fs::File does nothing and returns Ok.
flush(p) == "ok"

\* A mutant of OpenError: a refused permission is reported like any other
\* failure to open.
OpenErrorGeneric(p, kind) == MsgError("FailedToOpen", p, kind)

\* The two Err arms of the match on open (lines 62-80).
OpenError(p, kind) ==
  IF kind = "PermissionDenied"
  THEN MsgError("PermissionError", p, kind)
  ELSE MsgError("FailedToOpen", p, kind)

\* `?` on write_all and flush: the io::Error itself, boxed.
IoErrorOf(p, kind) == OsError(kind)

NoFail == [at |-> 0, stage |-> "none"]

RECURSIVE apply_loop_skip(_, _, _, _)
\* A mutant of apply_loop: a location that fails to open is remembered and
\* the loop goes on to the locations after it.
apply_loop_skip(paths, i, sys_profile, fls) ==
  IF i > Len(paths) THEN [files |-> fls, res |-> OkResult, fail |-> NoFail]
  ELSE LET p == paths[i]
           o == open_write(p)
           rest == apply_loop_skip(paths, i + 1, sys_profile,
                     IF o = "ok" /\ write_all(p) = "ok"
                     THEN [fls EXCEPT ![p] = WriteAt0(fls[p], sys_profile)] ELSE fls)
       IN IF o # "ok"
          THEN [files |-> rest.files, res |-> OpenError(p, o),
                fail |-> [at |-> i, stage |-> "open"]]
          ELSE IF write_all(p) # "ok"
          THEN [files |-> fls, res |-> IoErrorOf(p, write_all(p)),
                fail |-> [at |-> i, stage |-> "write"]]
          ELSE rest

RECURSIVE apply_loop(_, _, _, _)
\* The loop of apply_profile from location i on.
apply_loop(paths, i, sys_profile, fls) ==
  IF i > Len(paths) THEN [files |-> fls, res |-> OkResult, fail |-> NoFail]
  ELSE LET p == paths[i]
           o == open_write(p)
       IN IF o # "ok"
          THEN [files |-> fls, res |-> OpenError(p, o),
                fail |-> [at |-> i, stage |-> "open"]]
          ELSE IF write_all(p) # "ok"
          THEN [files |-> fls, res |-> IoErrorOf(p, write_all(p)),
                fail |-> [at |-> i, stage |-> "write"]]
          ELSE IF flush(p) # "ok"
          THEN [files |-> [fls EXCEPT ![p] = WriteAt0(fls[p], sys_profile)],
                res |-> IoErrorOf(p, flush(p)),
                fail |-> [at |-> i, stage |-> "flush"]]
          ELSE apply_loop(paths, i + 1, sys_profile,
                          [fls EXCEPT ![p] = WriteAt0(fls[p], sys_profile)])

ApplyingLine(profile_key) == <<"#Applying EPP setting: ">> \o profile_key
SuccessLine(profile_key) == <<"#Successfully set value to ">> \o profile_key

\* AmdEppMgr::apply_profile
apply_profile(paths, profile_key, fls) ==
  LET sys_profile == profile_key \o LF
      r == apply_loop(paths, 1, sys_profile, fls)
  IN [files |-> r.files, res |-> r.res, fail |-> r.fail,
      out |-> IF r.res.ok THEN <<ApplyingLine(profile_key), SuccessLine(profile_key)>>
              ELSE <<ApplyingLine(profile_key)>>]

\* ------------------------------------------------------------ read_profile
RECURSIVE TrimStart(_)
TrimStart(s) ==
  IF s # <<>> /\ IsWhitespace(Head(s)) THEN TrimStart(Tail(s)) ELSE s

RECURSIVE TrimEnd(_)
TrimEnd(s) ==
  IF s # <<>> /\ IsWhitespace(s[Len(s)]) THEN TrimEnd(SubSeq(s, 1, Len(s) - 1)) ELSE s

\* A mutant of trim: the content is taken as read.
trim_nothing(s) == s

\* str::trim: whitespace removed at both ends, never inside.
trim(s) == TrimEnd(TrimStart(s))

RECURSIVE DecimalDigits(_)
\* Display of a u32: its decimal digits, no leading zero.
DecimalDigits(n) ==
  IF n < 10 THEN <<Digit[n + 1]>>
  ELSE DecimalDigits(n \div 10) \o <<Digit[(n % 10) + 1]>>

\* The minimum width of the {:02} in the label.
LabelWidth == 2

RECURSIVE ZeroPad(_, _)
ZeroPad(s, w) == IF Len(s) >= w THEN s ELSE ZeroPad(<<"0">> \o s, w)

\* A mutant of cpu_label: the last two digits alone.
cpu_label_two_digits(cpu_num) ==
  <<"C","P","U">> \o ZeroPad(DecimalDigits(cpu_num % 100), LabelWidth)

\* format!("CPU{:02}", cpu_num)
cpu_label(cpu_num) == <<"C","P","U">> \o ZeroPad(DecimalDigits(cpu_num), LabelWidth)

\* File::open(path)?.read_to_string(..): "ok" or the error's kind.
read_to_string(p) == IF entries[p] = "dir_epp_dir" THEN "IsADirectory" ELSE "ok"

RECURSIVE read_loop(_, _, _, _)
\* The loop of read_profile (lines 101-130): cpu_data in the order of the
\* paths, or the first error.
read_loop(paths, i, fls, acc) ==
  IF i > Len(paths) THEN [res |-> OkResult, data |-> acc]
  ELSE LET p == paths[i]
           cpu_num_str == strip_prefix_cpu(p)
       IN IF ~cpu_num_str.some THEN read_loop(paths, i + 1, fls, acc)
          ELSE IF ParseU32(cpu_num_str.val) = ParseErr
          THEN [res |-> CustomIoError("InvalidData", "InvalidCpuNumber"), data |-> <<>>]
          ELSE IF read_to_string(p) # "ok"
          THEN [res |-> OsError(read_to_string(p)), data |-> <<>>]
          ELSE read_loop(paths, i + 1, fls,
                 Append(acc, [label |-> cpu_label(ParseU32(cpu_num_str.val)),
                              value |-> trim(fls[p])]))

RECURSIVE InsertByLabel(_, _)
\* x put behind every element whose label is not greater than its own.
InsertByLabel(sorted, x) ==
  IF sorted = <<>> THEN <<x>>
  ELSE IF StrLess(x.label, Head(sorted).label) THEN <<x>> \o sorted
  ELSE <<Head(sorted)>> \o InsertByLabel(Tail(sorted), x)

RECURSIVE sort_by_label(_)
\* cpu_data.sort_by(|a, b| a.0.cmp(&b.0)): a stable sort on the label.
sort_by_label(data) ==
  IF data = <<>> THEN <<>>
  ELSE InsertByLabel(sort_by_label(SubSeq(data, 1, Len(data) - 1)), data[Len(data)])

NUM_COLUMNS == 3
COLUMN_SPACING == 2

RECURSIVE Spaces(_)
Spaces(n) == IF n <= 0 THEN <<>> ELSE <<" ">> \o Spaces(n - 1)

\* format!("{:width$}", s): s, then spaces up to the width if it is shorter.
pad(s, width) == s \o Spaces(width - Len(s))

\* format!("{}: {}", label, value)
entry_str(e) == e.label \o <<":", " ">> \o e.value

RECURSIVE MaxOver(_, _)
\* .max().unwrap_or(0) of the lengths in a list of strings
MaxOver(strs, i) ==
  IF i > Len(strs) THEN 0 ELSE Max(Len(strs[i]), MaxOver(strs, i + 1))

\* max_label_len (lines 135-139): the longest label.
max_label_len(data) == MaxOver([i \in 1..Len(data) |-> data[i].label], 1)

RECURSIVE join(_, _)
\* [String]::join(sep)
join(parts, sep) ==
  IF parts = <<>> THEN <<>>
  ELSE IF Len(parts) = 1 THEN parts[1]
  ELSE parts[1] \o sep \o join(Tail(parts), sep)

RECURSIVE chunks(_, _)
\* slice::chunks(n)
chunks(data, n) ==
  IF data = <<>> THEN <<>>
  ELSE IF Len(data) <= n THEN <<data>>
  ELSE <<SubSeq(data, 1, n)>> \o chunks(SubSeq(data, n + 1, Len(data)), n)

\* The printing loop of read_profile (lines 145-154): one line per chunk.
render(data) ==
  LET cs == chunks(data, NUM_COLUMNS)
      width == max_label_len(data)
  IN [r \in 1..Len(cs) |->
        join([c \in 1..Len(cs[r]) |-> pad(entry_str(cs[r][c]), width)],
             Spaces(COLUMN_SPACING))]

\* AmdEppMgr::read_profile
read_profile(paths, fls) ==
  LET r == read_loop(paths, 1, fls, <<>>)
      sorted == sort_by_label(r.data)
  IN IF r.res.ok
     THEN [res |-> OkResult, data |-> sorted, out |-> render(sorted)]
     ELSE [res |-> r.res, data |-> <<>>, out |-> <<>>]

\* ----------------------------------------------------------------- run_app
SetFlags == {"performance", "power", "balance_performance", "balance_power"}
NoLevel == 0
HelpLine == <<"#help">>

\* The if/else chain of run_app on the flags (lines 304-319): the profile to
\* set, or None.
select_profile(sel) ==
  IF sel.flag = "performance" THEN Performance
  ELSE IF sel.flag = "power" THEN Power
  ELSE IF sel.flag = "balance_performance" THEN BalancePerformance
  ELSE IF sel.flag = "balance_power" THEN BalancePower
  ELSE IF sel.flag = "level" THEN from_level(sel.level)
  ELSE None

\* run_app from the parsed command line on: what it returns, prints and
\* leaves in the files.
run_app(sel) ==
  LET mgr == New(baseDir, entries)
      profile == select_profile(sel)
      none == [files |-> files, res |-> OkResult, out |-> <<>>, fail |-> NoFail,
               data |-> <<>>, profile |-> None, mgr |-> mgr]
  IN IF ~mgr.res.ok THEN [none EXCEPT !.res = mgr.res]
     ELSE IF sel.flag = "level" /\ profile = None
     THEN [none EXCEPT !.res = MsgError("InvalidProfileLevel", NoPath, "none")]
     ELSE IF profile # None
     THEN LET a == apply_profile(mgr.epp_paths, as_str(profile), files)
          IN [none EXCEPT !.files = a.files, !.res = a.res, !.out = a.out,
                          !.fail = a.fail, !.profile = profile]
     ELSE IF sel.flag = "show"
     THEN LET r == read_profile(mgr.epp_paths, files)
          IN [none EXCEPT !.res = r.res, !.out = r.out, !.data = r.data]
     ELSE [none EXCEPT !.out = <<HelpLine>>]

\* One invocation of the program with the command line sel.
Invoke(sel) ==
  /\ \E r \in {run_app(sel)} :
     LET isApply == r.profile # None /\ r.res.ok
     IN /\ files' = r.files
        /\ result' = r.res
        /\ stdout' = r.out
        /\ fail' = r.fail
        /\ cpu_data' = r.data
        /\ profile_to_set' = r.profile
        /\ discovered' = r.mgr.res.ok
        /\ epp_paths' = r.mgr.epp_paths
        /\ phase' = IF phase = "applying" /\ isApply THEN "applying"
                    ELSE IF phase = "applying" /\ applied # <<>>
                            /\ sel.flag = "show" /\ r.res.ok THEN "read"
                    ELSE "other"
        /\ applied' = IF phase = "applying" /\ isApply THEN Append(applied, r.profile)
                      ELSE IF phase = "applying" /\ applied # <<>>
                            /\ sel.flag = "show" /\ r.res.ok THEN applied
                      ELSE <<>>
  /\ budget' = budget - 1
  /\ cli' = sel
  /\ preFiles' = files
  /\ UNCHANGED <<baseDir, entries, perm, initFiles>>

\* --performance, --power, --balance-performance or --balance-power
RunSet ==
  /\ budget > 0
  /\ \E f \in SetFlags : Invoke([flag |-> f, level |-> NoLevel])

\* -p LEVEL
RunLevel ==
  /\ budget > 0
  /\ \E l \in 0..MaxLevel : Invoke([flag |-> "level", level |-> l])

\* --show
RunShow ==
  /\ budget > 0
  /\ Invoke([flag |-> "show", level |-> NoLevel])

\* no action selector
RunNone ==
  /\ budget > 0
  /\ Invoke([flag |-> "none", level |-> NoLevel])

Next == RunSet \/ RunLevel \/ RunShow \/ RunNone
NextDiscovery == RunShow \/ RunNone

\* ------------------------------------------------------------ initial states
Fresh ==
  /\ cli = [flag |-> "init", level |-> NoLevel]
  /\ discovered = FALSE
  /\ epp_paths = <<>>
  /\ profile_to_set = None
  /\ cpu_data = <<>>
  /\ stdout = <<>>
  /\ result = OkResult
  /\ fail = NoFail
  /\ applied = <<>>
  /\ phase = "applying"
  /\ preFiles = files
  /\ initFiles = files

\* Directory names of a host's cores.
CoreNames == << <<"c","p","u","0">>, <<"c","p","u","1">>,
                <<"c","p","u","2">>, <<"c","p","u","3">> >>

\* What a control file holds before the program runs.
InitContents == {as_str(BalancePerformance) \o LF, as_str(Power) \o LF}

Faults(pm) == Cardinality({n \in DOMAIN pm : pm[n] # "rw"})

\* Main specification: a host with cores cpu0 .. cpu(n-1), n up to
\* MaxEntries, each with its control file, of which up to MaxFaults refuse
\* the open or the write; or a host whose base directory is missing or
\* unreadable.
Init ==
  /\ baseDir \in {"ok", "missing", "unreadable"}
  /\ \E cores \in 0..MaxEntries : \E S \in {{CoreNames[i] : i \in 1..cores}} :
       /\ cores <= Len(CoreNames)
       /\ baseDir # "ok" => S = {}
       /\ entries = [n \in S |-> "dir_epp_file"]
       /\ perm \in {pm \in [S -> Perms] : Faults(pm) <= MaxFaults}
       /\ files \in [S -> InitContents]
  /\ budget = MaxRuns
  /\ Fresh

\* Names an entry of the base directory may have.
DiscNames == {
  <<"c","p","u","0">>, <<"c","p","u","1">>, <<"c","p","u","2">>,
  <<"c","p","u","1","0">>, <<"c","p","u","2","0">>, <<"c","p","u","1","0","0">>,
  <<"c","p","u","0","1">>, <<"c","p","u","+","1">>, <<"c","p","u","-","1">>,
  <<"c","p","u">>, <<"c","p","u","f","r","e","q">>,
  <<"c","p","u","4","2","9","4","9","6","7","2","9","6">> }

\* Discovery specification: a base directory holding up to MaxDiscEntries
\* entries of any name and kind; or one that is missing or unreadable.
InitDiscovery ==
  /\ baseDir \in {"ok", "missing", "unreadable"}
  /\ \E S \in SUBSET DiscNames :
       /\ Cardinality(S) <= MaxDiscEntries
       /\ baseDir # "ok" => S = {}
       /\ entries \in [S -> EntryKinds]
       /\ perm = [n \in S |-> "rw"]
       /\ files = [n \in S |-> IF entries[n] = "dir_epp_file"
                               THEN as_str(Performance) \o LF ELSE <<>>]
  /\ budget = MaxDiscRuns
  /\ Fresh

\* Round-trip specification: MaxCpus cores whose control files all take the
\* write; up to MaxSeq invocations.
InitRoundTrip ==
  /\ baseDir = "ok"
  /\ LET S == {CoreNames[i] : i \in 1..MaxCpus}
     IN /\ entries = [n \in S |-> "dir_epp_file"]
        /\ perm = [n \in S |-> "rw"]
        /\ files \in [S -> InitContents]
  /\ budget = MaxSeq
  /\ Fresh

Spec == Init /\ [][Next]_vars
SpecDiscovery == InitDiscovery /\ [][NextDiscovery]_vars
SpecRoundTrip == InitRoundTrip /\ [][Next]_vars

\* ======================================================================
\* Properties
\* ======================================================================
Ran == cli.flag # "init"
\* apply_profile was called in the last invocation.
ApplyCalled == Ran /\ discovered /\ profile_to_set # None
NumPaths == Len(epp_paths)
Token == as_str(profile_to_set)
Written == Token \o LF

\* Location k is the first that fails, and it fails on open.
FirstFailureIsOpenAt(k) ==
  /\ open_write(epp_paths[k]) # "ok"
  /\ \A i \in 1..(k - 1) :
       open_write(epp_paths[i]) = "ok" /\ write_all(epp_paths[i]) = "ok"

\* Location k is the first that fails, and it fails on write.
FirstFailureIsWriteAt(k) ==
  /\ open_write(epp_paths[k]) = "ok" /\ write_all(epp_paths[k]) # "ok"
  /\ \A i \in 1..(k - 1) :
       open_write(epp_paths[i]) = "ok" /\ write_all(epp_paths[i]) = "ok"

\* C1: when apply_profile stops because location k cannot be opened, every
\* location before k holds the written token (the token and a newline, at
\* the start of the file), every location from k on has the content it had
\* before the call, and the error returned names the path of location k.
C1_PartialFailure ==
  \A k \in 1..NumPaths :
    (ApplyCalled /\ FirstFailureIsOpenAt(k)) =>
      /\ ~result.ok
      /\ result.path = epp_paths[k]
      /\ \A i \in 1..(k - 1) :
           /\ HasPrefix(files[epp_paths[i]], Written)
           /\ Len(files[epp_paths[i]]) = Max(Len(preFiles[epp_paths[i]]), Len(Written))
      /\ \A j \in k..NumPaths : files[epp_paths[j]] = preFiles[epp_paths[j]]
      /\ \A n \in DOMAIN files \ {epp_paths[i] : i \in 1..NumPaths} :
           files[n] = preFiles[n]

\* C1 witness: three locations, the second refuses the open; the first was
\* modified by the call and the third is as it was.
C1_Witness ==
  /\ ApplyCalled /\ NumPaths = 3 /\ FirstFailureIsOpenAt(2)
  /\ ~result.ok /\ result.path = epp_paths[2]
  /\ files[epp_paths[1]] # preFiles[epp_paths[1]]
  /\ files[epp_paths[3]] = preFiles[epp_paths[3]]
  /\ preFiles[epp_paths[3]] # Written

\* C5 (as claimed): a failure at location k that is not a refused permission
\* on open, whether on open, write or flush, is reported with the path of
\* location k and the underlying cause.
C5_EveryFailureCarriesPath ==
  \A k \in 1..NumPaths :
    (ApplyCalled /\ (FirstFailureIsOpenAt(k) \/ FirstFailureIsWriteAt(k))) =>
      /\ ~result.ok
      /\ open_write(epp_paths[k]) = "PermissionDenied" => result.msg = "PermissionError"
      /\ open_write(epp_paths[k]) # "PermissionDenied" =>
           /\ result.msg # "PermissionError"
           /\ result.path = epp_paths[k]
           /\ result.cause # "none"

\* C5 (amended): a refused permission on open at location k is reported as
\* a permission error, any other failure to open as a failure to open, both
\* with the path of location k and the cause; a failure of the write is
\* the io::Error itself, which carries the cause and no path.
C5_ErrorReporting ==
  \A k \in 1..NumPaths :
    /\ (ApplyCalled /\ FirstFailureIsOpenAt(k)) =>
         LET kind == open_write(epp_paths[k])
         IN /\ ~result.ok /\ result.src = "string"
            /\ result.path = epp_paths[k]
            /\ result.cause = kind
            /\ result.msg = "PermissionError" <=> kind = "PermissionDenied"
            /\ result.msg = "FailedToOpen" <=> kind # "PermissionDenied"
    /\ (ApplyCalled /\ FirstFailureIsWriteAt(k)) =>
         /\ ~result.ok /\ result.src = "io"
         /\ result.path = NoPath
         /\ result.cause = write_all(epp_paths[k])
         /\ result.kind = write_all(epp_paths[k])

\* C5 witness: the write at the second location is refused.
C5_Witness ==
  /\ ApplyCalled /\ NumPaths >= 2 /\ FirstFailureIsWriteAt(2)
  /\ ~result.ok /\ result.path = NoPath /\ result.cause = "ResourceBusy"

\* C6: with no action selector the program prints help and succeeds,
\* whatever the filesystem holds.
C6_NoSelectorPrintsHelp ==
  cli.flag = "none" => (result.ok /\ stdout = <<HelpLine>>)

LevelOrder == <<Performance, BalancePerformance, BalancePower, Power>>

RefWidth(data) == MaxOver([i \in 1..Len(data) |-> entry_str(data[i])], 1)
RefRows(data) == (Len(data) + 2) \div 3
RefLine(data, r) ==
  LET first == 3 * (r - 1) + 1
      last == IF 3 * r < Len(data) THEN 3 * r ELSE Len(data)
  IN join([c \in 1..(last - first + 1) |->
             pad(entry_str(data[first + c - 1]), RefWidth(data))],
          <<" ", " ">>)
RefRender(data) == [r \in 1..RefRows(data) |-> RefLine(data, r)]

\* C8: the lines read_profile prints are those of the reference renderer.
C8_RenderMatchesReference ==
  (cli.flag = "show" /\ result.ok) => stdout = RefRender(cpu_data)

\* The core index discovery and read_profile parse out of a directory name.
IndexOfName(n) == ParseU32(strip_prefix_cpu(n).val)
LastApplied == as_str(applied[Len(applied)])
\* The report's entry for the control file below directory n.
EntriesOf(n) == {i \in 1..Len(cpu_data) : cpu_data[i].label = cpu_label(IndexOfName(n))}

\* C2 (as claimed; stated for control files that held nothing longer than
\* the first token and its newline before the sequence, so that whatever a
\* read shows beyond the last token is left by a token of the sequence):
\* after a non-empty sequence of successful applies, a read reports for
\* every location the token of the last apply.
C2_ReadReturnsLastToken ==
  (/\ phase = "read"
   /\ \A n \in DOMAIN initFiles : Len(initFiles[n]) <= Len(as_str(applied[1])) + 1) =>
    /\ Len(cpu_data) = NumPaths
    /\ \A i \in 1..Len(cpu_data) : cpu_data[i].value = LastApplied

\* No token of the sequence, and nothing the file of n held before the
\* sequence, is longer than the last token written.
NothingLonger(n) ==
  /\ \A j \in 1..Len(applied) : Len(as_str(applied[j])) <= Len(LastApplied)
  /\ Len(initFiles[n]) <= Len(LastApplied) + 1

\* C2 (amended): after a non-empty sequence of successful applies, a read
\* reports for every location a value that starts with the token of the
\* last apply, and that is this token when neither an earlier token of the
\* sequence nor the content the file held before it is longer.
C2_ReadAfterApply ==
  phase = "read" =>
    /\ Len(cpu_data) = NumPaths
    /\ \A i \in 1..NumPaths :
         /\ EntriesOf(epp_paths[i]) # {}
         /\ \A e \in EntriesOf(epp_paths[i]) :
              /\ HasPrefix(cpu_data[e].value, LastApplied)
              /\ NothingLonger(epp_paths[i]) => cpu_data[e].value = LastApplied

\* C2 witness: a longer token, then a shorter one, then a read that shows
\* what the longer one left behind; and a file the read reports exactly.
C2_Witness ==
  /\ phase = "read" /\ Len(applied) = 2
  /\ applied[1] = BalancePerformance /\ applied[2] = Power
  /\ \E i \in 1..Len(cpu_data) : cpu_data[i].value # LastApplied
  /\ \A i \in 1..Len(cpu_data) : HasPrefix(cpu_data[i].value, LastApplied)

\* ------------------------------------------------------------- discovery
BaseDirChars == <<"/","s","y","s","/","d","e","v","i","c","e","s","/",
                  "s","y","s","t","e","m","/","c","p","u","/">>
EppSubpath == <<"/","c","p","u","f","r","e","q","/","e","n","e","r","g","y","_",
                "p","e","r","f","o","r","m","a","n","c","e","_",
                "p","r","e","f","e","r","e","n","c","e">>
\* The full path string of the control file below directory n.
FullPath(n) == BaseDirChars \o n \o EppSubpath

\* "cpu", then one or more decimal digits, and nothing else.
RefNameMatches(n) ==
  /\ HasPrefix(n, CpuPrefix)
  /\ Len(n) > Len(CpuPrefix)
  /\ \A i \in (Len(CpuPrefix) + 1)..Len(n) : IsDigit(n[i])

RefQualifying ==
  {n \in DOMAIN entries : entries[n] = "dir_epp_file" /\ RefNameMatches(n)}

\* A list holds exactly the names of S, in ascending order of the full path.
IsSortedListOf(list, S) ==
  /\ Len(list) = Cardinality(S)
  /\ {list[i] : i \in 1..Len(list)} = S
  /\ \A i \in 1..(Len(list) - 1) : StrLess(FullPath(list[i]), FullPath(list[i + 1]))

\* C3: a successful discovery returns exactly the subdirectories named cpu
\* and one or more digits in which the control file exists as a file,
\* sorted by full path string.
C3_DiscoveryMatchesReference ==
  (Ran /\ discovered) => IsSortedListOf(epp_paths, RefQualifying)

\* C4: zero qualifying entries give the NotFound kind; a missing or unreadable
\* base directory gives an error of another kind.
C4_NotFoundDistinguishesEmpty ==
  Ran =>
    /\ (baseDir = "ok" /\ ~discovered) => (~result.ok /\ result.kind = "NotFound")
    /\ baseDir # "ok" => (~result.ok /\ result.kind # "NotFound")

\* The index a label shows.
IndexOfLabel(label) == ParseU32(SubSeq(label, 4, Len(label)))

\* C9: the entries of the report are in ascending numeric order of index.
C9_ReportInNumericOrder ==
  (cli.flag = "show" /\ result.ok) =>
    \A i \in 1..(Len(cpu_data) - 1) :
      IndexOfLabel(cpu_data[i].label) <= IndexOfLabel(cpu_data[i + 1].label)

Unsigned(n) == \A i \in 1..Len(n) : n[i] # "+"

\* C10 (as claimed; stated for base directories none of whose names carries
\* a sign): no two discovered locations have the same core index, and no two
\* entries of the report the same label.
C10_IndexUnique ==
  (Ran /\ discovered /\ \A n \in DOMAIN entries : Unsigned(n)) =>
    /\ \A i, j \in 1..NumPaths :
         i # j => IndexOfName(epp_paths[i]) # IndexOfName(epp_paths[j])
    /\ \A i, j \in 1..Len(cpu_data) :
         i # j => cpu_data[i].label # cpu_data[j].label

\* The name is cpu and the decimal digits of its index, as Display prints it.
Canonical(n) == n = CpuPrefix \o DecimalDigits(IndexOfName(n))

\* C10 (amended): the discovered locations are pairwise distinct and a
\* successful read_profile reports exactly one entry per location; the labels
\* (and the indices) are pairwise distinct when every discovered directory
\* name is the canonical decimal form of its index.
C10_OneEntryPerLocation ==
  (Ran /\ discovered) =>
    /\ \A i, j \in 1..NumPaths : i # j => epp_paths[i] # epp_paths[j]
    /\ (cli.flag = "show" /\ result.ok) =>
         /\ Len(cpu_data) = NumPaths
         /\ (\A i \in 1..NumPaths : Canonical(epp_paths[i])) =>
              \A i, j \in 1..Len(cpu_data) :
                i # j => cpu_data[i].label # cpu_data[j].label

\* C10 witness: a report of two locations with canonical names, one of them
\* with an index of three digits.
C10_Witness ==
  /\ cli.flag = "show" /\ result.ok /\ NumPaths = 2 /\ Len(cpu_data) = 2
  /\ \A i \in 1..NumPaths : Canonical(epp_paths[i])
  /\ \E i \in 1..NumPaths : IndexOfName(epp_paths[i]) >= 100
  /\ cpu_data[1].label # cpu_data[2].label

====
